---- MODULE Spec2Model ----
(***************************************************************************)
(* Up/Down training game: the session state machine of src/game.py         *)
(* (UpDownGame), the entry point of src/main.py and the end/emergency      *)
(* sequences of src/hardware.py.                                           *)
(*                                                                         *)
(* Time is discrete.  Every polling loop of the program                    *)
(* (asyncio.sleep(0.1), sleep(0.033), sleep(1)) polls once per time unit,  *)
(* longer sleeps take their length in units.  Every time stamp of          *)
(* the program (round_start_time, position_start_time, ...) is kept as the *)
(* time elapsed since it was taken (clk), saturated where the program only *)
(* compares it with a threshold.  Awaited hardware calls (bulbs, strobe,   *)
(* plug) complete at once; tasks interleave at timed sleeps, as asyncio    *)
(* tasks do.                                                               *)
(***************************************************************************)
EXTENDS Integers, Sequences, FiniteSets, TLC

VARIABLES
    game,   \* the fields of UpDownGame (self.*)
    clk,    \* elapsed/remaining time of the program's time stamps
    main,   \* the coroutine main() -> start_game() -> ... : position, locals
    mon,    \* the task created by command_position (monitor_position_achievement)
    ges,    \* the task created by end_game (game_end_sequence)
    env,    \* subject, sensors, wall clock vs. deadline
    hw      \* commanded state of the relays and white noise; observed history:
            \* stimulations of the episode, side effects of the last
            \* violation, violation cues of the pose, last extension cue,
            \* raised exception, round ended by expiry, void not yet followed
            \* by a round

vars == <<game, clk, main, mon, ges, env, hw>>

----------------------------------------------------------------------------
(* Program constants                                                        *)

MAX_PISHOCK_CYCLES == 7
ANGLE_DOWN_THRESHOLD == 20
ANGLE_UP_THRESHOLD == 80
POSITION_CONFIRMATION_DURATION == 1
ShockInterval == 5
SensorRecheckSleep == 5
EmergencyRetrySleep == 5
WaitTimeoutSlack == 2
SafetyTimeoutSlack == 1
FirstContinuousShockLead == 2
VoidedRoundViolations == 999
StaleWindow == 5
VIOLATION_LIMIT_MIN == 3
CYCLE_COMPLETION_BONUS == 1200

(* Configuration values in model time units (scaled down from config.py)   *)
PREPARATION_WINDOW == 2
VOID_BREAK_DURATION == 2
SENSOR_PATIENCE_TIME == 10
RoundDurationMax == 12
TransitionTimeMax == 3
HoldTimeMax == 3
TRAINING_GOAL == 30
GameEndDelayMax == 3
GameEndHoldInterval == 3
BreakDurationMax == 3
TOTAL_EXTENSION_TIME_ALLOWED == 2
EXTENSION_REQUEST_COOLDOWN == 2
ExtensionFanActivationMax == 2

(* Bounds of the model                                                      *)
MaxDepth == 2          \* nested enter_preparation calls with a faulty environment
MaxPolls == 5          \* calls of check_both_sensors_lost whose inputs are recorded
MaxRounds == 2         \* rounds of a configured session that are followed
MaxFaultyRounds == 1   \* of them, rounds in which a subject who presses
                       \* Button 1 may leave the commanded pose
MaxRequests == 2       \* extension requests after which Button 1 is left alone
MaxExtensionTime == 3  \* time for which an extension is followed
MaxPoseCues == 2       \* violation cues counted within one commanded pose
MaxPresses == 2        \* presses of one button that are followed

Levels == {"easy", "medium", "hard"}

\* The configuration is supplied from outside the core.  "shipped": config.py
\* as it is.  "limits": config.py with a violation_limit in every level
\* record.  "complete": with BREAK_EXTENSION_CHANCE as well.
Configurations == {"shipped", "limits", "complete"}

\* LEVEL_CONFIG of config.py: four keys per level, ranges in model units.
LEVEL_CONFIG ==
    [l \in Levels |->
        [round_duration  |-> {RoundDurationMax - 3, RoundDurationMax},
         transition_time |-> {TransitionTimeMax - 1, TransitionTimeMax},
         hold_time_up    |-> {HoldTimeMax - 1},
         hold_time_down  |-> {HoldTimeMax}]]

\* get_level_config under a configuration; a supplied limit is
\* VIOLATION_LIMIT_MIN.
LevelConfig(config) ==
    IF config = "shipped" THEN LEVEL_CONFIG
    ELSE [l \in Levels |-> [violation_limit |-> VIOLATION_LIMIT_MIN] @@ LEVEL_CONFIG[l]]

\* Angles the board can report: one below the DOWN threshold, one above the
\* UP threshold.
Angles == {10, 90}

\* What game.py can observe of one sensor: CONNECTED with an update in the
\* last 5 s and data; ERROR/CONNECTING with an update in the last 5 s;
\* DISCONNECTED (get_sensor_state turns every stale sensor into this).
SensorConds == {"connected", "error", "disconnected"}

Min(a, b) == IF a < b THEN a ELSE b

----------------------------------------------------------------------------
(* Sensor management                                                        *)

\* get_board_angle from the availability of the two sources (lines 182-193)
\* on: primary first, then backup, else None (has = FALSE).  switched: the
\* "Switched to backup board sensor" line is logged.
BoardAngleNoSwitchRecord(g, p_available, b_available, p_angle, b_angle) ==
    IF p_available
    THEN [g   |-> [g EXCEPT !.active_board_sensor = "w_back.txt",
                            !.both_sensors_were_lost =
                                IF g.active_board_sensor # "w_back.txt"
                                THEN FALSE ELSE @],
          has |-> TRUE, angle |-> p_angle, switched |-> FALSE]
    ELSE IF b_available
    THEN [g   |-> g, has |-> TRUE, angle |-> b_angle,
          switched |-> g.active_board_sensor # "Orientation.txt"]
    ELSE [g   |-> [g EXCEPT !.both_sensors_were_lost = TRUE],
          has |-> FALSE, angle |-> 0, switched |-> FALSE]
BoardAngle(g, p_available, b_available, p_angle, b_angle) ==
    IF p_available
    THEN [g   |-> [g EXCEPT !.active_board_sensor = "w_back.txt",
                            !.both_sensors_were_lost =
                                IF g.active_board_sensor # "w_back.txt"
                                THEN FALSE ELSE @],
          has |-> TRUE, angle |-> p_angle, switched |-> FALSE]
    ELSE IF b_available
    THEN [g   |-> [g EXCEPT !.active_board_sensor = "Orientation.txt"],
          has |-> TRUE, angle |-> b_angle,
          switched |-> g.active_board_sensor # "Orientation.txt"]
    ELSE [g   |-> [g EXCEPT !.both_sensors_were_lost = TRUE],
          has |-> FALSE, angle |-> 0, switched |-> FALSE]

\* get_board_angle: both sensors are mounted on the one board.
GetBoardAngle(g) ==
    BoardAngle(g, env.primary = "connected", env.backup = "connected",
               env.angle, env.angle)

\* check_both_sensors_lost from both_lost (lines 242-245) on: edge-triggered
\* flag, returns both_lost.  signal: play_sensor_issue ("lost") or
\* play_sensor_issue_resolved ("recovered") is called.
BothLostEveryCall(g, both_lost) ==
    IF both_lost
    THEN [g |-> [g EXCEPT !.both_sensors_lost = TRUE], ret |-> TRUE,
          signal |-> "lost"]
    ELSE IF g.both_sensors_lost
    THEN [g |-> [g EXCEPT !.both_sensors_lost = FALSE], ret |-> FALSE,
          signal |-> "recovered"]
    ELSE [g |-> g, ret |-> both_lost, signal |-> "none"]
BothLost(g, both_lost) ==
    IF both_lost /\ ~g.both_sensors_lost
    THEN [g |-> [g EXCEPT !.both_sensors_lost = TRUE], ret |-> TRUE,
          signal |-> "lost"]
    ELSE IF ~both_lost /\ g.both_sensors_lost
    THEN [g |-> [g EXCEPT !.both_sensors_lost = FALSE], ret |-> FALSE,
          signal |-> "recovered"]
    ELSE [g |-> g, ret |-> both_lost, signal |-> "none"]

\* check_both_sensors_lost
CheckBothSensorsLost(g) ==
    BothLost(g, env.primary = "disconnected" /\ env.backup = "disconnected")

\* check_position_correct
CheckPositionCorrect(g, target) ==
    LET a == GetBoardAngle(g)
    IN  [g  |-> a.g,
         ok |-> IF ~a.has THEN FALSE
                ELSE IF target = "down" THEN a.angle < ANGLE_DOWN_THRESHOLD
                ELSE a.angle > ANGLE_UP_THRESHOLD]

Opposite(p) == IF p = "down" THEN "up" ELSE "down"

----------------------------------------------------------------------------
(* Hardware commands and audio (the commanded state only)                   *)

AllBulbsOff(h) == [h EXCEPT !.bulb_1 = "off", !.bulb_2 = "off"]
AllBulbsOn(h)  == [h EXCEPT !.bulb_1 = "on", !.bulb_2 = "on"]
BulbControl(h, position, s) ==
    IF position = "down" THEN [h EXCEPT !.bulb_1 = s] ELSE [h EXCEPT !.bulb_2 = s]
PlugOn(h) == [h EXCEPT !.plug = "on"]
StartWhiteNoise(h) == [h EXCEPT !.white_noise = TRUE]
StopWhiteNoise(h)  == [h EXCEPT !.white_noise = FALSE]
\* The void condition tested after a stimulation was counted.
VoidDueLate(count) == count > MAX_PISHOCK_CYCLES
VoidDue(count) == count >= MAX_PISHOCK_CYCLES

\* asyncio.create_task(send_pishock(mode=PISHOCK_MODE_SHOCK))
SendPishock(h) ==
    [h EXCEPT !.episode_shocks = Min(@ + 1, MAX_PISHOCK_CYCLES + 2),
              !.since_stim = 0]

\* play_violation(); the cues of the commanded pose are counted.
PlayViolation(h) == [h EXCEPT !.pose_cues = Min(@ + 1, MaxPoseCues)]

\* The side effects of a violation, performed in program order.
RECURSIVE Perform(_, _)
Perform(h, effects) ==
    IF effects = <<>> THEN h
    ELSE Perform(IF Head(effects) = "send_pishock" THEN SendPishock(h)
                 ELSE PlayViolation(h),
                 Tail(effects))

\* Lines 497-503 of monitor_position_achievement: the stimulation task is
\* created, then the cue is played unless the pose has had its cue.
MonViolationEffectsCueFirst(announced) ==
    (IF ~announced THEN <<"play_violation">> ELSE <<>>) \o <<"send_pishock">>
MonViolationEffects(announced) ==
    <<"send_pishock">> \o (IF ~announced THEN <<"play_violation">> ELSE <<>>)

\* Lines 863-864 of run_round.
HoldViolationEffects == <<"send_pishock", "play_violation">>

\* A violation's side effects are performed and recorded.
Violation(h, effects) == [Perform(h, effects) EXCEPT !.effects = effects]

\* No time stamp taken yet, or none in use any more.
\* last_extension_request_time = 0 lies further back than the cooldown.  The
\* stored button counts (last_button_1_value of the preparation window,
\* _last_button_1_value of the break) are kept relative to the counter of
\* the button: "None", "current" (equal to it) or "behind" (a press has been
\* counted since).
NoClock == [round_elapsed |-> 0, held |-> 0, trans |-> WaitTimeoutSlack,
            since_continuous_shock |-> 0, since_shock |-> 0,
            prep_left |-> 0, void_left |-> 0, patience |-> 0,
            break_left |-> 0, extension_elapsed |-> 0, fan_left |-> 0,
            since_request |-> EXTENSION_REQUEST_COOLDOWN,
            last_button_1_value |-> "None",
            break_last_button_1_value |-> "current"]

\* The task of monitor_position_achievement has ended.
MonDead == [pc |-> "dead", position |-> "down", transition_time |-> 0,
            elapsed |-> 0, violation_triggered |-> FALSE, wake |-> 0]

----------------------------------------------------------------------------
(* Initial state: UpDownGame.__init__, then main() up to start_game()       *)

\* UpDownGame.__init__
NewGame ==
    [state |-> "waiting", is_running |-> TRUE,
     critical_error |-> FALSE,
     completed_training_time |-> 0,
     current_round_duration |-> 0,
     current_level |-> "easy",
     round_violations |-> 0,
     last_round_passed |-> "None",
     current_position |-> "down",
     position_achieved |-> FALSE,
     current_pose_violations |-> 0,
     violation_announced_this_pose |-> FALSE,
     consecutive_violations |-> 0,
     void_occurred |-> FALSE,
     extension_qualified |-> FALSE,
     extension_active |-> FALSE,
     extension_fan_triggered |-> FALSE,
     total_extension_time_used |-> 0,
     total_extension_requests |-> 0,
     both_sensors_lost |-> FALSE,
     both_sensors_were_lost |-> FALSE,
     active_board_sensor |-> "w_back.txt",
     continuous_shock_start |-> FALSE,
     continuous_shock_count |-> 0]

\* The process is started with one of the configurations.
Start(configs) ==
    /\ game = NewGame
    /\ clk = NoClock
    /\ main = [pc |-> "start_game", wake |-> 0, busy |-> FALSE, stack |-> <<>>,
               position_hold_target |-> 0, shocks_this_violation |-> 0]
    /\ mon = MonDead
    /\ ges = [pc |-> "none", wake |-> 0]
    /\ env \in [angle : Angles, primary : {"connected"}, backup : {"connected"},
                deadline_reached : {FALSE}, config : configs]
    /\ hw = [bulb_1 |-> "off", bulb_2 |-> "off", plug |-> "off", fan |-> "off",
             white_noise |-> FALSE, episode_shocks |-> 0, since_stim |-> 0,
             exc |-> "None",
             round_expired |-> FALSE, violations_at_expiry |-> 0,
             void_pending |-> FALSE, cue |-> "none",
             effects |-> <<>>, pose_cues |-> 0]

Init == Start({"shipped"})

----------------------------------------------------------------------------
(* Scheduling helpers                                                       *)

\* The coroutine of main() is at label p and runnable.
MainAt(p) == main.pc = p /\ main.wake = 0
\* await asyncio.sleep(k) with the code resuming at label p.
Sleep(m, p, k) == [m EXCEPT !.pc = p, !.wake = k, !.busy = FALSE]
\* Control moves on to label p without an await in between.
Goto(m, p) == [m EXCEPT !.pc = p, !.wake = 0, !.busy = TRUE]
\* Control leaves run_round for label p: the locals of run_round are gone.
LeaveRound(m, p) == [Goto(m, p) EXCEPT !.position_hold_target = 0,
                                       !.shocks_this_violation = 0]

ProcessRunning == main.pc \notin {"finally", "atexit", "exited"}

\* asyncio.create_task(game_end_sequence())
CreateGameEndSequence(e) == IF e.pc = "none" THEN [pc |-> "start", wake |-> 0] ELSE e

----------------------------------------------------------------------------
(* State machine: operations on the fields                                  *)

\* start_round, up to the call of run_round
StartRound(g, duration) ==
    [g EXCEPT !.state = "round",
              !.current_round_duration = duration,
              !.consecutive_violations = 0,
              !.current_pose_violations = 0,
              !.round_violations = 0,
              !.continuous_shock_start = FALSE,
              !.continuous_shock_count = 0,
              !.current_position = "down",
              !.position_achieved = FALSE]

\* end_game
EndGameCrediting(g) ==
    [g EXCEPT !.state = "finished", !.is_running = FALSE,
              !.completed_training_time = @ + g.current_round_duration]
EndGame(g) == [g EXCEPT !.state = "finished", !.is_running = FALSE]

----------------------------------------------------------------------------
(* start_game and the preparation phase                                     *)

\* start_game: sets the deadline and calls enter_preparation.
StartGame ==
    /\ MainAt("start_game")
    /\ main' = Goto(main, "enter_preparation")
    /\ UNCHANGED <<game, clk, mon, ges, env, hw>>

\* enter_preparation, up to the first test of the preparation window.
EnterPreparation ==
    /\ MainAt("enter_preparation")
    /\ game' = [game EXCEPT !.state = "preparation"]
    /\ hw' = AllBulbsOff(hw)
    /\ clk' = [clk EXCEPT !.prep_left = PREPARATION_WINDOW]
    /\ main' = Goto(main, "prep")
    /\ UNCHANGED <<mon, ges, env>>

\* The fan trigger times start_extension draws from.
FanActivationTimes == {ExtensionFanActivationMax - 1, ExtensionFanActivationMax}

\* start_extension: the fields, and the time stamps with fan trigger time t.
StartExtension(g) ==
    [g EXCEPT !.extension_active = TRUE, !.extension_fan_triggered = FALSE]
StartExtensionClock(c, t) ==
    [c EXCEPT !.extension_elapsed = 0, !.fan_left = t,
              !.break_last_button_1_value = "current"]

\* One pass of the preparation window loop: Button 1 polled with
\* check_button_press (a press with extension_qualified calls
\* start_extension and the loop goes on), then sleep.
PrepPoll ==
    /\ MainAt("prep")
    /\ clk.prep_left > 0
    /\ LET pressed_1 == clk.last_button_1_value = "behind"
       IN  IF pressed_1 /\ game.extension_qualified
           THEN /\ game' = StartExtension(game)
                /\ \E t \in FanActivationTimes :
                       clk' = [StartExtensionClock(clk, t) EXCEPT
                                  !.last_button_1_value = "current"]
           ELSE /\ clk' = [clk EXCEPT !.last_button_1_value = "current"]
                /\ UNCHANGED game
    /\ main' = Sleep(main, "prep", 1)
    /\ UNCHANGED <<mon, ges, env, hw>>

\* The window is over: enter_preparation calls start_round (line 715).
PrepDone ==
    /\ MainAt("prep")
    /\ clk.prep_left = 0
    /\ \E d \in LEVEL_CONFIG[game.current_level].round_duration :
           game' = StartRound(game, d)
    /\ clk' = [clk EXCEPT !.round_elapsed = 0, !.since_continuous_shock = 0]
    /\ hw' = [hw EXCEPT !.episode_shocks = 0, !.since_stim = 0,
                        !.void_pending = FALSE,
                        !.pose_cues = 0]
    /\ main' = [Goto(main, "wait_down") EXCEPT !.stack = Append(main.stack, 1)]
    /\ UNCHANGED <<mon, ges, env>>

\* A call made by enter_preparation returned.  start_round at line 715
\* returned (frame 1): enter_preparation calls start_round again (line 721).
\* start_round at line 721 returned (frame 2): enter_preparation returns.
\* With no frame left, start_game returns to main().
Return ==
    /\ MainAt("return")
    /\ IF main.stack = <<>>
       THEN /\ main' = Goto(main, "game_loop")
            /\ UNCHANGED <<game, clk, hw>>
       ELSE IF main.stack[Len(main.stack)] = 1
       THEN /\ \E d \in LEVEL_CONFIG[game.current_level].round_duration :
                   game' = StartRound(game, d)
            /\ clk' = [clk EXCEPT !.round_elapsed = 0, !.since_continuous_shock = 0]
            /\ hw' = [hw EXCEPT !.episode_shocks = 0, !.since_stim = 0,
                                !.void_pending = FALSE,
                                !.pose_cues = 0]
            /\ main' = [Goto(main, "wait_down") EXCEPT
                           !.stack = [main.stack EXCEPT ![Len(main.stack)] = 2]]
       ELSE /\ main' = [Goto(main, "return") EXCEPT
                           !.stack = SubSeq(main.stack, 1, Len(main.stack) - 1)]
            /\ UNCHANGED <<game, clk, hw>>
    /\ UNCHANGED <<mon, ges, env>>

----------------------------------------------------------------------------
(* run_round: wait for the initial DOWN position                            *)

WaitDownCond == ~game.position_achieved /\ game.state = "round"

\* One pass of the loop at lines 765-775.
WaitDownPoll ==
    /\ MainAt("wait_down")
    /\ WaitDownCond
    /\ LET l == CheckBothSensorsLost(game)
           c == CheckPositionCorrect(l.g, "down")
       IN  IF l.ret
           THEN /\ game' = l.g
                /\ main' = LeaveRound(main, "handle_sensor_loss")
                /\ UNCHANGED <<clk, hw>>
           ELSE /\ game' = [c.g EXCEPT !.position_achieved = c.ok]
                /\ clk' = [clk EXCEPT !.held = IF c.ok THEN 0 ELSE @]
                /\ hw' = [hw EXCEPT !.episode_shocks = IF c.ok THEN 0 ELSE @]
                /\ main' = Sleep(main, "wait_down", 1)
    /\ UNCHANGED <<mon, ges, env>>

\* The loop is left: the first hold time is drawn, the main loop starts.
WaitDownExit ==
    /\ MainAt("wait_down")
    /\ ~WaitDownCond
    /\ \E h \in (IF game.current_position = "up"
                 THEN LEVEL_CONFIG[game.current_level].hold_time_up
                 ELSE LEVEL_CONFIG[game.current_level].hold_time_down) :
           main' = [Goto(main, "round") EXCEPT !.position_hold_target = h]
    /\ UNCHANGED <<game, clk, mon, ges, env, hw>>

----------------------------------------------------------------------------
(* handle_sensor_loss_during_round                                          *)

\* Entry, up to the first sleep of the patience loop.
HandleSensorLoss ==
    /\ MainAt("handle_sensor_loss")
    /\ hw' = StartWhiteNoise(AllBulbsOff(hw))
    /\ game' = [game EXCEPT !.state = "paused"]
    /\ clk' = [clk EXCEPT !.patience = 0]
    /\ IF ~game.both_sensors_lost
       THEN main' = Goto(main, "sensor_recovered")
       ELSE main' = Sleep(main, "sensor_wait", SensorRecheckSleep)
    /\ UNCHANGED <<mon, ges, env>>

\* The patience test of line 309.
PatienceNeverExceeded(elapsed) == FALSE
PatienceExceeded(elapsed) == elapsed >= SENSOR_PATIENCE_TIME

\* After the 5 s sleep: re-check the sensors, then the deadline, then the
\* loop condition and the patience time.
SensorWaitPoll ==
    /\ MainAt("sensor_wait")
    /\ LET l == CheckBothSensorsLost(game)
           stay == /\ ~env.deadline_reached
                   /\ l.g.both_sensors_lost
                   /\ ~PatienceExceeded(clk.patience)
       IN  /\ game' = l.g
           /\ clk' = [clk EXCEPT !.patience = IF stay THEN @ ELSE 0]
           /\ IF env.deadline_reached
              THEN main' = Goto(main, "sensor_deadline")
              ELSE IF ~l.g.both_sensors_lost
              THEN main' = Goto(main, "sensor_recovered")
              ELSE IF PatienceExceeded(clk.patience)
              THEN main' = Goto(main, "sensor_timeout")
              ELSE main' = Sleep(main, "sensor_wait", SensorRecheckSleep)
    /\ UNCHANGED <<mon, ges, env, hw>>

\* Patience exceeded (lines 309-314) or deadline reached (lines 323-327):
\* stop the white noise, end_game, return.
SensorWaitEndGame ==
    /\ main.wake = 0
    /\ main.pc \in {"sensor_timeout", "sensor_deadline"}
    /\ hw' = StopWhiteNoise(hw)
    /\ game' = EndGame(game)
    /\ ges' = CreateGameEndSequence(ges)
    /\ main' = Goto(main, "return")
    /\ UNCHANGED <<clk, mon, env>>

\* Sensors are back (lines 334-339): enter_preparation for a fresh round.
SensorRecovered ==
    /\ MainAt("sensor_recovered")
    /\ hw' = StopWhiteNoise(hw)
    /\ main' = Goto(main, "enter_preparation")
    /\ UNCHANGED <<game, clk, mon, ges, env>>

----------------------------------------------------------------------------
(* run_round: the main loop (lines 789-1042)                                *)

\* The head of one pass: get_board_angle, then check_both_sensors_lost.
RoundHead == CheckBothSensorsLost(GetBoardAngle(game).g)
RoundExpiredNow == clk.round_elapsed >= game.current_round_duration
\* The pass reaches the two-state part (neither lost, expired nor deadline).
RoundBody ==
    /\ MainAt("round")
    /\ game.state = "round"
    /\ ~RoundHead.ret
    /\ ~RoundExpiredNow
    /\ ~env.deadline_reached

\* Lines 794-796.
RoundSensorLoss ==
    /\ MainAt("round")
    /\ game.state = "round"
    /\ RoundHead.ret
    /\ game' = RoundHead.g
    /\ main' = LeaveRound(main, "handle_sensor_loss")
    /\ UNCHANGED <<clk, mon, ges, env, hw>>

\* Lines 802-806: the adjusted round time is used up, end_round is called.
RoundExpired ==
    /\ MainAt("round")
    /\ game.state = "round"
    /\ ~RoundHead.ret
    /\ RoundExpiredNow
    /\ game' = RoundHead.g
    /\ hw' = [hw EXCEPT !.round_expired = TRUE,
                        !.violations_at_expiry = Min(game.round_violations,
                                                     MAX_PISHOCK_CYCLES)]
    /\ main' = LeaveRound(main, "end_round")
    /\ UNCHANGED <<clk, mon, ges, env>>

\* run_round returns without a round result: the loop condition fails
\* (line 789), or the deadline is reached (lines 809-811: end_game, break).
RoundDeadline ==
    /\ MainAt("round")
    /\ IF game.state # "round"
       THEN UNCHANGED <<game, ges>>
       ELSE /\ ~RoundHead.ret
            /\ ~RoundExpiredNow
            /\ env.deadline_reached
            /\ game' = EndGame(RoundHead.g)
            /\ ges' = CreateGameEndSequence(ges)
    /\ main' = LeaveRound(main, "return")
    /\ UNCHANGED <<clk, mon, env, hw>>

\* STATE 1, position still correct, hold time not complete.
RoundHolding ==
    /\ RoundBody
    /\ game.position_achieved
    /\ LET c == CheckPositionCorrect(RoundHead.g, game.current_position)
       IN  /\ c.ok
           /\ clk.held < main.position_hold_target
           /\ game' = c.g
    /\ main' = Sleep(main, "round", 1)
    /\ UNCHANGED <<clk, mon, ges, env, hw>>

\* STATE 1, position lost: grace period (lines 830-855) or violation.
RoundPositionLost ==
    /\ RoundBody
    /\ game.position_achieved
    /\ LET c == CheckPositionCorrect(RoundHead.g, game.current_position)
       IN  /\ ~c.ok
           /\ game' = c.g
    /\ main' = Goto(main, IF clk.trans < 0 THEN "grace" ELSE "violation")
    /\ UNCHANGED <<clk, mon, ges, env, hw>>

\* command_position(position, is_rapid=False)
CommandPosition(g, position) ==
    [g EXCEPT !.current_position = position, !.position_achieved = FALSE]

\* STATE 1, hold complete (lines 922-939): switch position and command it;
\* command_position creates the monitoring task.
RoundHoldComplete ==
    /\ RoundBody
    /\ game.position_achieved
    /\ LET c == CheckPositionCorrect(RoundHead.g, game.current_position)
           p == Opposite(game.current_position)
       IN  /\ c.ok
           /\ clk.held >= main.position_hold_target
           /\ game' = CommandPosition(c.g, p)
           /\ hw' = [BulbControl(hw, p, "on") EXCEPT !.episode_shocks = 0,
                                                     !.since_stim = 0,
                                                      !.pose_cues = 0]
           /\ \E t \in LEVEL_CONFIG[game.current_level].transition_time :
                /\ clk' = [clk EXCEPT !.trans = 0 - t]
                /\ mon' = [pc |-> "start", position |-> p, transition_time |-> t,
                           elapsed |-> 0, violation_triggered |-> FALSE,
                           wake |-> 0]
    /\ main' = Goto(main, "trans_wait")
    /\ UNCHANGED <<ges, env>>

\* One pass of the loop at lines 941-961 and the test after it (963-989).
TransWait ==
    /\ MainAt("trans_wait")
    /\ IF ~game.position_achieved /\ game.state = "round"
       THEN LET l == RoundHead
            IN  /\ game' = l.g
                /\ UNCHANGED clk
                /\ IF l.ret
                   THEN main' = LeaveRound(main, "handle_sensor_loss")
                   ELSE IF clk.trans >= WaitTimeoutSlack
                   THEN main' = Sleep(main, "round", 1)
                   ELSE main' = Sleep(main, "trans_wait", 1)
       ELSE IF game.position_achieved
       THEN /\ game' = [game EXCEPT !.consecutive_violations = 0]
            /\ clk' = [clk EXCEPT !.held = 0]
            /\ \E h \in (IF game.current_position = "up"
                         THEN LEVEL_CONFIG[game.current_level].hold_time_up
                         ELSE LEVEL_CONFIG[game.current_level].hold_time_down) :
                   main' = [Goto(main, "round") EXCEPT !.position_hold_target = h]
       ELSE /\ main' = Sleep(main, "round", 1)
            /\ UNCHANGED <<game, clk>>
    /\ UNCHANGED <<mon, ges, env, hw>>

\* One pass of the grace loop (lines 836-846) and the test after it.
GracePoll ==
    /\ MainAt("grace")
    /\ LET c == CheckPositionCorrect(game, game.current_position)
           l == CheckBothSensorsLost(c.g)
       IN  IF ~c.ok /\ game.state = "round" /\ l.ret
           THEN /\ game' = l.g
                /\ main' = LeaveRound(main, "handle_sensor_loss")
                /\ UNCHANGED clk
           ELSE IF ~c.ok /\ game.state = "round" /\ clk.trans < 0
           THEN /\ game' = l.g
                /\ main' = Sleep(main, "grace", 1)
                /\ UNCHANGED clk
           ELSE IF c.ok
           THEN /\ game' = c.g
                /\ clk' = [clk EXCEPT !.held = 0]
                /\ main' = Sleep(main, "round", 1)
           ELSE /\ game' = (IF game.state = "round" THEN l.g ELSE c.g)
                /\ main' = Goto(main, "violation")
                /\ UNCHANGED clk
    /\ UNCHANGED <<mon, ges, env, hw>>

\* Violation after the grace period (lines 857-872): first stimulation.
HoldViolation ==
    /\ MainAt("violation")
    /\ hw' = Violation(hw, HoldViolationEffects)
    /\ game' = [game EXCEPT !.position_achieved = FALSE,
                            !.consecutive_violations = @ + 1,
                            !.round_violations = @ + 1]
    /\ clk' = [clk EXCEPT !.since_shock = 0]
    /\ main' = [Goto(main, "viol") EXCEPT !.shocks_this_violation = 1]
    /\ UNCHANGED <<mon, ges, env>>

\* "if time_since_last_shock >= 5.0" (lines 884 and 1020).
ShockDueEarly(since) == since >= ShockInterval - 1
ShockDue(since) == since >= ShockInterval

\* The counters of a periodic shock of an episode (lines 885-886 and
\* 1021-1022): round_violations is not among them.
ReshockCounting(g) ==
    [g EXCEPT !.consecutive_violations = @ + 1, !.round_violations = @ + 1]
Reshock(g) == [g EXCEPT !.consecutive_violations = @ + 1]

\* One pass of the loop at lines 875-900: position still wrong.
ViolPoll ==
    /\ MainAt("viol")
    /\ LET c == CheckPositionCorrect(game, game.current_position)
           l == CheckBothSensorsLost(c.g)
           shock == ShockDue(clk.since_shock)
       IN  /\ ~c.ok
           /\ game.state = "round"
           /\ IF l.ret
              THEN /\ game' = l.g
                   /\ main' = LeaveRound(main, "handle_sensor_loss")
                   /\ clk' = [clk EXCEPT !.since_shock = 0]
                   /\ UNCHANGED hw
              ELSE IF shock
              THEN /\ game' = Reshock(l.g)
                   /\ hw' = SendPishock(hw)
                   /\ clk' = [clk EXCEPT !.since_shock = 0]
                   /\ IF VoidDue(main.shocks_this_violation + 1)
                      THEN main' = [LeaveRound(main, "void_round") EXCEPT
                                       !.shocks_this_violation = @ + 1]
                      ELSE main' = [Sleep(main, "viol", 1) EXCEPT
                                       !.shocks_this_violation = @ + 1]
              ELSE /\ game' = l.g
                   /\ main' = Sleep(main, "viol", 1)
                   /\ UNCHANGED <<clk, hw>>
    /\ UNCHANGED <<mon, ges, env>>

\* The loop is left (lines 902-919): position re-achieved.
ViolCorrected ==
    /\ MainAt("viol")
    /\ LET c == CheckPositionCorrect(game, game.current_position)
       IN  /\ c.ok \/ game.state # "round"
           /\ game' = [c.g EXCEPT !.position_achieved = TRUE,
                                  !.consecutive_violations = 0]
    /\ clk' = [clk EXCEPT !.held = 0, !.since_shock = 0]
    /\ hw' = [hw EXCEPT !.episode_shocks =
                  IF CheckPositionCorrect(game, game.current_position).ok
                  THEN 0 ELSE @]
    /\ main' = [Sleep(main, "round", 1) EXCEPT !.shocks_this_violation = 0]
    /\ UNCHANGED <<mon, ges, env>>

\* STATE 2 (lines 991-1042): position commanded and not yet achieved.
RoundNotAchieved ==
    /\ RoundBody
    /\ ~game.position_achieved
    /\ LET c == CheckPositionCorrect(RoundHead.g, game.current_position)
           first == ~game.continuous_shock_start
           count == IF first THEN 1 ELSE game.continuous_shock_count
           since == IF first THEN FirstContinuousShockLead
                    ELSE clk.since_continuous_shock
       IN  IF c.ok
           THEN /\ game' = c.g
                /\ hw' = [hw EXCEPT !.episode_shocks = 0, !.since_stim = 0]
                /\ main' = Sleep(main, "round", 1)
                /\ UNCHANGED clk
           ELSE IF clk.trans > 0
           THEN IF ShockDue(since)
                THEN /\ game' = [Reshock(c.g) EXCEPT
                                     !.continuous_shock_start = TRUE,
                                     !.continuous_shock_count = count + 1]
                     /\ hw' = SendPishock(hw)
                     /\ clk' = [clk EXCEPT !.since_continuous_shock = 0]
                     /\ IF VoidDue(count + 1)
                        THEN main' = LeaveRound(main, "void_round")
                        ELSE main' = Sleep(main, "round", 1)
                ELSE /\ game' = [c.g EXCEPT !.continuous_shock_start = TRUE,
                                            !.continuous_shock_count = count]
                     /\ clk' = [clk EXCEPT !.since_continuous_shock = since]
                     /\ main' = Sleep(main, "round", 1)
                     /\ UNCHANGED hw
           ELSE /\ game' = [c.g EXCEPT !.continuous_shock_start = FALSE,
                                       !.continuous_shock_count = 0]
                /\ clk' = [clk EXCEPT !.since_continuous_shock = 0]
                /\ main' = Sleep(main, "round", 1)
                /\ UNCHANGED hw
    /\ UNCHANGED <<mon, ges, env>>

----------------------------------------------------------------------------
(* end_round and apply_round_result                                         *)

\* config['violation_limit'] can be read for this level.
HasViolationLimit(level) ==
    "violation_limit" \in DOMAIN LevelConfig(env.config)[level]

\* apply_round_result: the credit comes first, the log line that reads the
\* limit next (raised = TRUE when the key is missing), the level change and
\* the resets last.
ApplyRoundResult(g, passed) ==
    LET g1 == [g EXCEPT !.last_round_passed = IF passed THEN "True" ELSE "False",
                        !.completed_training_time =
                            IF g.void_occurred THEN @
                            ELSE @ + g.current_round_duration]
        g2 == IF passed
              THEN IF g1.current_level = "easy"
                   THEN [g1 EXCEPT !.current_level = "medium",
                                   !.extension_qualified = FALSE]
                   ELSE IF g1.current_level = "medium"
                   THEN [g1 EXCEPT !.current_level = "hard",
                                   !.extension_qualified = FALSE]
                   ELSE [g1 EXCEPT !.completed_training_time =
                                       @ + CYCLE_COMPLETION_BONUS,
                                   !.current_level = "easy",
                                   !.extension_qualified = TRUE]
              ELSE [g1 EXCEPT !.current_level = "easy",
                              !.extension_qualified = ~g1.void_occurred]
    IN  IF ~HasViolationLimit(g.current_level)
        THEN [g |-> g1, raised |-> TRUE]
        ELSE [g |-> [g2 EXCEPT !.round_violations = 0, !.void_occurred = FALSE],
              raised |-> FALSE]

\* An exception leaves every coroutine of the call chain and reaches the
\* handler of main() (main.py line 513), which goes on to its finally block.
RaiseToMain(m) == [LeaveRound(m, "finally") EXCEPT !.stack = <<>>]

\* end_round: bulbs off, pass/fail from the level's limit, apply_round_result,
\* then end_game or start_break.
EndRound ==
    /\ MainAt("end_round")
    /\ IF ~HasViolationLimit(game.current_level)
       THEN /\ main' = RaiseToMain(main)
            /\ hw' = [AllBulbsOff(hw) EXCEPT !.exc = "KeyError"]
            /\ UNCHANGED <<game, ges>>
       ELSE LET r == ApplyRoundResult(game,
                        game.round_violations <
                            LevelConfig(env.config)[game.current_level].violation_limit)
            IN  IF r.raised
                THEN /\ main' = RaiseToMain(main)
                     /\ hw' = [AllBulbsOff(hw) EXCEPT !.exc = "KeyError"]
                     /\ game' = r.g
                     /\ UNCHANGED ges
                ELSE IF TRAINING_GOAL - r.g.completed_training_time <= 0
                THEN /\ game' = EndGame(r.g)
                     /\ ges' = CreateGameEndSequence(ges)
                     /\ hw' = AllBulbsOff(hw)
                     /\ main' = Goto(main, "return")
                ELSE /\ game' = r.g
                     /\ hw' = AllBulbsOff(hw)
                     /\ main' = Goto(main, "start_break")
                     /\ UNCHANGED ges
    /\ UNCHANGED <<clk, mon, env>>

----------------------------------------------------------------------------
(* The break and its extensions                                             *)

\* start_break, and run_break up to its loop.
StartBreak ==
    /\ MainAt("start_break")
    /\ game' = [game EXCEPT !.state = "break"]
    /\ \E d \in {BreakDurationMax - 1, BreakDurationMax} :
           clk' = [clk EXCEPT !.break_left = d,
                              !.break_last_button_1_value = "current"]
    /\ hw' = [StartWhiteNoise(AllBulbsOff(hw)) EXCEPT
                  !.round_expired = FALSE, !.violations_at_expiry = 0]
    /\ main' = Goto(main, "break")
    /\ UNCHANGED <<mon, ges, env>>

\* The pass of the loop of run_break takes its normal branch.
BreakBody == MainAt("break") /\ game.state = "break" /\ ~game.extension_active

\* Lines 1132-1134 and end_break.
BreakExpired ==
    /\ BreakBody
    /\ clk.break_left = 0
    /\ hw' = [StopWhiteNoise(hw) EXCEPT !.cue = "none"]
    /\ main' = Goto(main, "enter_preparation")
    /\ UNCHANGED <<game, clk, mon, ges, env>>

\* Lines 1137-1139.
BreakDeadline ==
    /\ BreakBody
    /\ clk.break_left > 0
    /\ env.deadline_reached
    /\ game' = EndGame(game)
    /\ ges' = CreateGameEndSequence(ges)
    /\ hw' = [hw EXCEPT !.cue = "none"]
    /\ main' = Goto(main, "return")
    /\ UNCHANGED <<clk, mon, env>>

\* What random.random() < BREAK_EXTENSION_CHANCE can give.
ApprovalDraws(config) ==
    IF config = "complete" THEN {"granted", "denied"} ELSE {"NameError"}

\* process_extension_request, with the outcome of the approval draw.
ProcessExtensionRequestNoLimit(g, draw) ==
    LET g1 == [g EXCEPT !.total_extension_requests = @ + 1]
    IN  IF draw = "NameError"
        THEN [g |-> g1, cue |-> "none", raised |-> TRUE]
        ELSE IF draw = "granted"
        THEN [g |-> StartExtension(g1), cue |-> "granted", raised |-> FALSE]
        ELSE [g |-> g1, cue |-> "denied", raised |-> FALSE]
ProcessExtensionRequest(g, draw) ==
    LET remaining_time == TOTAL_EXTENSION_TIME_ALLOWED - g.total_extension_time_used
        g1 == [g EXCEPT !.total_extension_requests = @ + 1]
    IN  IF remaining_time <= 0
        THEN [g |-> g1, cue |-> "limit", raised |-> FALSE]
        ELSE IF draw = "NameError"
        THEN [g |-> g1, cue |-> "none", raised |-> TRUE]
        ELSE IF draw = "granted"
        THEN [g |-> StartExtension(g1), cue |-> "granted", raised |-> FALSE]
        ELSE [g |-> g1, cue |-> "denied", raised |-> FALSE]

\* Lines 1145-1152: a rising edge of the counter of Button 1, the cooldown
\* since the last request being over.
RequestDueNoCooldown(last, since) == last = "behind"
RequestDue(last, since) ==
    last = "behind" /\ since >= EXTENSION_REQUEST_COOLDOWN

\* Lines 1142-1161: Button 1 is read; a rising edge outside the cooldown is
\* an extension request.
BreakPoll ==
    /\ BreakBody
    /\ clk.break_left > 0
    /\ ~env.deadline_reached
    /\ IF RequestDue(clk.break_last_button_1_value, clk.since_request)
       THEN \E draw \in ApprovalDraws(env.config), t \in FanActivationTimes :
              LET r == ProcessExtensionRequest(game, draw)
                  c == [clk EXCEPT !.since_request = 0]
              IN  /\ game' = r.g
                  /\ hw' = [hw EXCEPT !.cue = r.cue,
                                      !.exc = IF r.raised THEN "NameError" ELSE @]
                  /\ clk' = IF r.g.extension_active THEN StartExtensionClock(c, t)
                            ELSE [c EXCEPT !.break_last_button_1_value = "current"]
                  /\ main' = IF r.raised THEN RaiseToMain(main)
                             ELSE Sleep(main, "break", 1)
       ELSE /\ clk' = [clk EXCEPT !.break_last_button_1_value = "current"]
            /\ hw' = [hw EXCEPT !.cue = "none"]
            /\ main' = Sleep(main, "break", 1)
            /\ UNCHANGED game
    /\ UNCHANGED <<mon, ges, env>>

\* end_extension, elapsed after extension_start_time.
EndExtensionOverwriting(g, elapsed) ==
    [g EXCEPT !.total_extension_time_used = elapsed,
              !.extension_active = FALSE,
              !.extension_fan_triggered = FALSE]
EndExtension(g, elapsed) ==
    [g EXCEPT !.total_extension_time_used = @ + elapsed,
              !.extension_active = FALSE,
              !.extension_fan_triggered = FALSE]

\* run_extension, called by the loop of run_break while extension_active:
\* the fan goes on at its trigger time, a press of a button ends the
\* extension (end_extension turns the fan off).
RunExtension ==
    /\ MainAt("break")
    /\ game.state = "break"
    /\ game.extension_active
    /\ LET fan == ~game.extension_fan_triggered /\ clk.fan_left = 0
           button_pressed == clk.break_last_button_1_value = "behind"
       IN  IF button_pressed
           THEN /\ game' = EndExtension(game, clk.extension_elapsed)
                /\ hw' = [hw EXCEPT !.cue = "none",
                              !.fan = IF fan \/ game.extension_fan_triggered
                                      THEN "off" ELSE @]
                /\ clk' = [clk EXCEPT !.extension_elapsed = 0, !.fan_left = 0,
                                      !.break_last_button_1_value = "current"]
           ELSE /\ game' = [game EXCEPT !.extension_fan_triggered = @ \/ fan]
                /\ hw' = [hw EXCEPT !.cue = "none", !.fan = IF fan THEN "on" ELSE @]
                /\ UNCHANGED clk
    /\ main' = Sleep(main, "break", 1)
    /\ UNCHANGED <<mon, ges, env>>

----------------------------------------------------------------------------
(* void_round                                                               *)

\* Entry (lines 402-418).
VoidRound ==
    /\ MainAt("void_round")
    /\ game' = [game EXCEPT !.void_occurred = TRUE,
                            !.round_violations = VoidedRoundViolations,
                            !.state = "break"]
    /\ hw' = [StartWhiteNoise(AllBulbsOff(hw)) EXCEPT !.void_pending = TRUE]
    /\ clk' = [clk EXCEPT !.void_left = VOID_BREAK_DURATION]
    /\ main' = Goto(main, "void_break")
    /\ UNCHANGED <<mon, ges, env>>

\* One pass of the forced break loop (lines 419-431).
VoidBreakPoll ==
    /\ MainAt("void_break")
    /\ clk.void_left > 0
    /\ LET l == CheckBothSensorsLost(game)
       IN  /\ game' = l.g
           /\ main' = IF l.ret THEN LeaveRound(main, "handle_sensor_loss")
                      ELSE Sleep(main, "void_break", 1)
    /\ UNCHANGED <<clk, mon, ges, env, hw>>

\* The break is over (lines 433-448): counters reset, enter_preparation.
VoidBreakDone ==
    /\ MainAt("void_break")
    /\ clk.void_left = 0
    /\ hw' = StopWhiteNoise(hw)
    /\ game' = [game EXCEPT !.consecutive_violations = 0,
                            !.current_pose_violations = 0,
                            !.round_violations = 0,
                            !.continuous_shock_start = FALSE,
                            !.continuous_shock_count = 0]
    /\ clk' = [clk EXCEPT !.since_continuous_shock = 0]
    /\ main' = Goto(main, "enter_preparation")
    /\ UNCHANGED <<mon, ges, env>>

----------------------------------------------------------------------------
(* monitor_position_achievement (the task created by command_position)      *)

MonAt(p) == mon.pc = p /\ mon.wake = 0 /\ ~main.busy /\ ProcessRunning

\* Lines 455-460: the task starts.
MonStart ==
    /\ MonAt("start")
    /\ game' = [game EXCEPT !.violation_announced_this_pose = FALSE,
                            !.current_pose_violations = 0]
    /\ mon' = [mon EXCEPT !.pc = "poll"]
    /\ UNCHANGED <<clk, main, ges, env, hw>>

\* One pass of the loop at lines 462-522.
MonPoll ==
    /\ MonAt("poll")
    /\ LET c == CheckPositionCorrect(game, mon.position)
           violation == mon.elapsed >= mon.transition_time
                        /\ ~mon.violation_triggered
           g == IF game.position_achieved THEN game ELSE c.g
           shocked == Violation(hw, MonViolationEffects(
                                        g.violation_announced_this_pose))
           gv == [g EXCEPT !.current_pose_violations = @ + 1,
                           !.consecutive_violations = @ + 1,
                           !.round_violations = @ + 1,
                           !.violation_announced_this_pose = TRUE]
       IN  IF ~game.position_achieved /\ c.ok
           THEN /\ game' = [c.g EXCEPT !.position_achieved = TRUE,
                                       !.consecutive_violations = 0]
                /\ hw' = [hw EXCEPT !.episode_shocks = 0, !.since_stim = 0]
                /\ mon' = [mon EXCEPT !.pc = "confirm",
                                      !.wake = POSITION_CONFIRMATION_DURATION]
           ELSE /\ game' = IF violation THEN gv ELSE g
                /\ IF violation /\ VoidDue(gv.consecutive_violations)
                   THEN /\ mon' = [mon EXCEPT !.pc = "void_round",
                                              !.violation_triggered = TRUE]
                        /\ hw' = shocked
                   ELSE IF mon.elapsed >= mon.transition_time + SafetyTimeoutSlack
                   THEN /\ mon' = MonDead
                        /\ hw' = BulbControl(IF violation THEN shocked
                                             ELSE hw, mon.position, "off")
                   ELSE /\ mon' = [mon EXCEPT !.wake = 1,
                                       !.violation_triggered = @ \/ violation]
                        /\ hw' = IF violation THEN shocked ELSE hw
    /\ UNCHANGED <<clk, main, ges, env>>

\* Lines 480-485: after the confirmation time the bulb goes off and the
\* hold timer starts.
MonConfirm ==
    /\ MonAt("confirm")
    /\ hw' = BulbControl(hw, mon.position, "off")
    /\ clk' = [clk EXCEPT !.held = 0]
    /\ mon' = MonDead
    /\ UNCHANGED <<game, main, ges, env>>

----------------------------------------------------------------------------
(* game_end_sequence (the task created by end_game)                         *)

GesAt(p) == ges.pc = p /\ ges.wake = 0 /\ ~main.busy /\ ProcessRunning

\* Step 1 and the draw of the waiting time (lines 378-398).
GesStart ==
    /\ GesAt("start")
    /\ hw' = AllBulbsOn(hw)
    /\ \E d \in {GameEndDelayMax - 1, GameEndDelayMax} :
           ges' = [pc |-> "delay", wake |-> d]
    /\ UNCHANGED <<game, clk, main, mon, env>>

\* Steps 3 and 4 (lines 405-421): plug on, then plug and bulbs on every 30 s.
GesHold ==
    /\ GesAt("delay") \/ GesAt("hold")
    /\ hw' = AllBulbsOn(PlugOn(hw))
    /\ ges' = [pc |-> "hold", wake |-> GameEndHoldInterval]
    /\ UNCHANGED <<game, clk, main, mon, env>>

----------------------------------------------------------------------------
(* main(): game loop, cleanup, exit                                         *)

\* emergency_shutdown: plug on, bulbs on, every 5 s, for ever.
EmergencyShutdown(h) == AllBulbsOn(PlugOn(h))

\* start_game returned: game_loop runs while is_running; update() calls
\* emergency_shutdown when critical_error is set.
GameLoop ==
    /\ main.wake = 0
    /\ main.pc \in {"game_loop", "emergency_shutdown"}
    /\ IF main.pc = "emergency_shutdown"
       THEN /\ hw' = EmergencyShutdown(hw)
            /\ main' = Sleep(main, "emergency_shutdown", EmergencyRetrySleep)
       ELSE IF ~game.is_running
       THEN /\ main' = Goto(main, "finally")
            /\ UNCHANGED hw
       ELSE IF game.critical_error
       THEN /\ hw' = EmergencyShutdown(hw)
            /\ main' = Sleep(main, "emergency_shutdown", EmergencyRetrySleep)
       ELSE /\ main' = Sleep(main, "game_loop", 1)
            /\ UNCHANGED hw
    /\ UNCHANGED <<game, clk, mon, ges, env>>

\* The safety signals of the finally block (lines 552-563).
SafetySignalsBulbsOnly(h) == AllBulbsOn(h)
SafetySignals(h) == PlugOn(AllBulbsOn(h))

\* The finally block of main() (lines 516-567); asyncio.run then cancels the
\* remaining tasks.
MainFinally ==
    /\ MainAt("finally")
    /\ game' = [game EXCEPT !.is_running = FALSE]
    /\ hw' = SafetySignals(hw)
    /\ main' = Goto(main, "atexit")
    /\ mon' = MonDead
    /\ ges' = [ges EXCEPT !.pc = IF @ = "none" THEN @ ELSE "cancelled", !.wake = 0]
    /\ clk' = NoClock
    /\ UNCHANGED env

\* emergency_cleanup, registered with atexit (lines 364-428).
EmergencyCleanup(h) == StopWhiteNoise(AllBulbsOn(PlugOn(h)))

AtExit ==
    /\ MainAt("atexit")
    /\ hw' = EmergencyCleanup(hw)
    /\ main' = Goto(main, "exited")
    /\ UNCHANGED <<game, clk, mon, ges, env>>

\* SIGINT or SIGTERM: signal_handler (lines 432-435).  asyncio.run cannot be
\* called from the running loop, so sync_emergency_cleanup falls back to its
\* direct request; sys.exit then ends the event loop, which cancels every
\* task: main() is unwound into its finally block, the other tasks end.
Signal ==
    /\ ProcessRunning
    /\ ~main.busy
    /\ main' = RaiseToMain(main)
    /\ hw' = [hw EXCEPT !.exc = "SystemExit"]
    /\ mon' = MonDead
    /\ ges' = [ges EXCEPT !.pc = IF @ = "none" THEN @ ELSE "cancelled", !.wake = 0]
    /\ clk' = NoClock
    /\ UNCHANGED <<game, env>>

----------------------------------------------------------------------------
(* Passage of time and the environment                                      *)

\* Nested preparation phases the faulty environment has caused so far.
Depth == Len(main.stack) + (IF main.pc \in {"enter_preparation", "prep"} THEN 1 ELSE 0)

\* Sensor conditions: both fine, primary gone, neither delivering but not
\* both disconnected, both disconnected.
SensorScenarios ==
    {<<"connected", "connected">>, <<"disconnected", "connected">>,
     <<"error", "disconnected">>, <<"disconnected", "disconnected">>}

TargetAngle(position) == IF position = "down" THEN 10 ELSE 90

\* The environment after one more time unit.  At the depth bound the subject
\* follows the commands and the sensors stay connected.
NextEnv ==
    IF Depth >= MaxDepth
    THEN {[angle |-> TargetAngle(game.current_position),
           primary |-> "connected", backup |-> "connected",
           deadline_reached |-> d, config |-> env.config] :
              d \in {env.deadline_reached, TRUE}}
    ELSE {e \in [angle : Angles, primary : SensorConds, backup : SensorConds,
                 deadline_reached : {env.deadline_reached, TRUE},
                 config : {env.config}] :
            /\ <<e.primary, e.backup>> \in SensorScenarios
            /\ (e.primary # "connected" /\ e.backup # "connected")
                   => e.angle = env.angle}

Dec(n) == IF n > 0 THEN n - 1 ELSE 0

\* Every task sleeps: one time unit passes; the environment moves to one of
\* environments, and Button 1 is pressed or not as presses allows.  The count
\* stored by run_break is compared only inside the break.
TimePasses(environments, presses) ==
    /\ ProcessRunning
    /\ ~main.busy
    /\ main.wake > 0
    /\ mon.pc \in {"dead", "void_round"} \/ mon.wake > 0
    /\ ges.pc \in {"none", "cancelled"} \/ ges.wake > 0
    /\ main' = [main EXCEPT !.wake = @ - 1]
    /\ mon' = [mon EXCEPT !.wake = Dec(@),
                          !.elapsed = IF mon.pc = "poll"
                                      THEN Min(@ + 1, mon.transition_time
                                                      + SafetyTimeoutSlack)
                                      ELSE @]
    /\ ges' = [ges EXCEPT !.wake = Dec(@)]
    /\ \E pressed \in presses : clk' =
              [round_elapsed |->
                   IF game.state = "round" /\ main.pc # "viol"
                   THEN Min(clk.round_elapsed + 1, game.current_round_duration)
                   ELSE clk.round_elapsed,
               held |-> Min(clk.held + 1, HoldTimeMax),
               trans |-> Min(clk.trans + 1, WaitTimeoutSlack),
               since_continuous_shock |->
                   IF game.continuous_shock_start
                   THEN Min(clk.since_continuous_shock + 1, ShockInterval)
                   ELSE clk.since_continuous_shock,
               since_shock |->
                   IF main.pc = "viol"
                   THEN Min(clk.since_shock + 1, ShockInterval)
                   ELSE clk.since_shock,
               prep_left |-> Dec(clk.prep_left),
               void_left |-> Dec(clk.void_left),
               patience |->
                   IF main.pc = "sensor_wait"
                   THEN Min(clk.patience + 1, SENSOR_PATIENCE_TIME)
                   ELSE clk.patience,
               break_left |-> Dec(clk.break_left),
               extension_elapsed |->
                   IF game.extension_active THEN clk.extension_elapsed + 1
                   ELSE clk.extension_elapsed,
               fan_left |-> Dec(clk.fan_left),
               since_request |->
                   Min(clk.since_request + 1, EXTENSION_REQUEST_COOLDOWN),
               last_button_1_value |->
                   IF pressed /\ clk.last_button_1_value = "current"
                   THEN "behind" ELSE clk.last_button_1_value,
               break_last_button_1_value |->
                   IF pressed /\ main.pc = "break"
                   THEN "behind" ELSE clk.break_last_button_1_value]
    /\ env' \in environments
    /\ hw' = [hw EXCEPT !.since_stim = IF hw.episode_shocks > 0
                                       THEN Min(@ + 1, ShockInterval) ELSE 0]
    /\ UNCHANGED game

\* Under the shipped configuration no press of a button has an effect.
Tick == TimePasses(NextEnv, {FALSE})

\* The environment of a configured session: the sensors deliver; the subject
\* is free in the first faulty rounds of the session and follows the
\* commands in later rounds and after the end of the session.
SessionEnv(faulty) ==
    {[angle |-> a, primary |-> "connected", backup |-> "connected",
      deadline_reached |-> d, config |-> env.config] :
         a \in (IF Depth > faulty \/ ~game.is_running
                THEN {TargetAngle(game.current_position)} ELSE Angles),
         d \in {env.deadline_reached, TRUE}}

\* Time passes in a configured session: the session is followed for
\* MaxRounds rounds and an extension for MaxExtensionTime.
SessionTick(faulty, presses) ==
    /\ Depth <= MaxRounds
    /\ game.extension_active => clk.extension_elapsed < MaxExtensionTime
    /\ TimePasses(SessionEnv(faulty), presses)

\* Button 1 is pressed, or not, in a break and in a preparation window.
ButtonPresses ==
    IF /\ game.state \in {"break", "preparation"}
       /\ game.total_extension_requests < MaxRequests \/ game.extension_active
    THEN BOOLEAN ELSE {FALSE}

\* A subject who uses Button 1.
ConfiguredTick == SessionTick(MaxFaultyRounds, ButtonPresses)

\* A subject who never presses a button and is free in every round.
LadderTick == SessionTick(MaxRounds, {FALSE})

----------------------------------------------------------------------------
(* The sensor queue (SensorDataQueue of main_wit.py) and the two polling     *)
(* functions of game.py on their own: the queue is driven by the sensor     *)
(* tasks, the functions are called in any order.  Here env is the queue:    *)
(* per board sensor its state, the age of its last update (saturated above  *)
(* the staleness window) and the angle of its latest frame; hw records what *)
(* the calls returned and signalled.                                        *)

BoardSensors == {"w_back.txt", "Orientation.txt"}
MaxAge == StaleWindow + 1

\* SensorDataQueue.__new__: no frame, no update time, all DISCONNECTED.
NewSensorQueue ==
    [state |-> [s \in BoardSensors |-> "DISCONNECTED"],
     age   |-> [s \in BoardSensors |-> MaxAge],
     angle |-> [s \in BoardSensors |-> 0]]

AddFrame(q, s, a) ==
    [q EXCEPT !.state[s] = "CONNECTED", !.age[s] = 0, !.angle[s] = a]

SetSensorState(q, s, st) ==
    [q EXCEPT !.state[s] = st,
              !.age[s] = IF st = "DISCONNECTED" THEN MaxAge ELSE @]

\* get_sensor_state marks a sensor without update for more than 5 s.
GetSensorState(q, s) ==
    IF q.age[s] > StaleWindow THEN [q EXCEPT !.state[s] = "DISCONNECTED"] ELSE q

\* last_update_time > current_time - 5
Recent(q, s) == q.age[s] < StaleWindow

SensorsMain == [pc |-> "sensors", wake |-> 0, busy |-> FALSE, stack |-> <<>>,
                position_hold_target |-> 0, shocks_this_violation |-> 0]

SensorsInit ==
    /\ game = NewGame
    /\ clk = NoClock
    /\ main = SensorsMain
    /\ mon = MonDead
    /\ ges = [pc |-> "none", wake |-> 0]
    /\ env = NewSensorQueue
    /\ hw = [ret_has |-> FALSE, ret_angle |-> 0, switched |-> FALSE,
             armed |-> TRUE, inputs |-> <<>>, lost_signals |-> 0,
             recovered_signals |-> 0]

\* updateData: a sensor task delivers a frame.
SensorFrame ==
    /\ main.pc = "sensors"
    /\ \E s \in BoardSensors, a \in Angles : env' = AddFrame(env, s, a)
    /\ UNCHANGED <<game, clk, main, mon, ges, hw>>

\* openDevice / updateData: a sensor task reports its connection state.
SensorStateChange ==
    /\ main.pc = "sensors"
    /\ \E s \in BoardSensors, st \in {"CONNECTING", "CONNECTED", "ERROR"} :
           env' = SetSensorState(env, s, st)
    /\ UNCHANGED <<game, clk, main, mon, ges, hw>>

\* One time unit passes without a frame.
SensorAge ==
    /\ main.pc = "sensors"
    /\ env' = [env EXCEPT !.age = [s \in BoardSensors |-> Min(@[s] + 1, MaxAge)]]
    /\ UNCHANGED <<game, clk, main, mon, ges, hw>>

\* A call of get_board_angle (lines 163-228).  get_all_angles gives every
\* sensor an entry, so *_has_data is true.
PollBoardAngle ==
    /\ main.pc = "sensors"
    /\ LET q == GetSensorState(GetSensorState(env, "w_back.txt"), "Orientation.txt")
           r == BoardAngle(game,
                           q.state["w_back.txt"] = "CONNECTED"
                               /\ Recent(q, "w_back.txt"),
                           q.state["Orientation.txt"] = "CONNECTED"
                               /\ Recent(q, "Orientation.txt"),
                           q.angle["w_back.txt"], q.angle["Orientation.txt"])
       IN  /\ env' = q
           /\ game' = r.g
           /\ hw' = [hw EXCEPT !.ret_has = r.has, !.ret_angle = r.angle,
                               !.switched = r.switched]
    /\ main' = [main EXCEPT !.pc = "polled_angle"]
    /\ UNCHANGED <<clk, mon, ges>>

\* The source is available as the caller of get_board_angle understands it.
Available(s) == env.state[s] = "CONNECTED" /\ env.age[s] < StaleWindow

\* The caller has used the result.  armed: no poll has returned the backup's
\* angle since the primary's angle was last returned.
SensorsResume ==
    /\ main.pc = "polled_angle"
    /\ main' = [main EXCEPT !.pc = "sensors"]
    /\ hw' = [hw EXCEPT !.ret_has = FALSE, !.ret_angle = 0, !.switched = FALSE,
                        !.armed = IF Available("w_back.txt") THEN TRUE
                                  ELSE IF Available("Orientation.txt") THEN FALSE
                                  ELSE @]
    /\ UNCHANGED <<game, clk, mon, ges, env>>

\* A call of check_both_sensors_lost (lines 235-264).
PollBothLost ==
    /\ main.pc = "sensors"
    /\ Len(hw.inputs) < MaxPolls
    /\ LET q == GetSensorState(GetSensorState(env, "w_back.txt"), "Orientation.txt")
           both_lost ==
               /\ q.state["w_back.txt"] = "DISCONNECTED" \/ ~Recent(q, "w_back.txt")
               /\ q.state["Orientation.txt"] = "DISCONNECTED"
                      \/ ~Recent(q, "Orientation.txt")
           r == BothLost(game, both_lost)
       IN  /\ env' = q
           /\ game' = r.g
           /\ hw' = [hw EXCEPT
                        !.inputs = Append(@, both_lost),
                        !.lost_signals = @ + (IF r.signal = "lost" THEN 1 ELSE 0),
                        !.recovered_signals =
                            @ + (IF r.signal = "recovered" THEN 1 ELSE 0)]
    /\ UNCHANGED <<clk, main, mon, ges>>

SensorQueueStep == SensorFrame \/ SensorStateChange \/ SensorAge

BoardAngleNext == SensorQueueStep \/ PollBoardAngle \/ SensorsResume
SpecBoardAngle == SensorsInit /\ [][BoardAngleNext]_vars

BothLostNext == SensorQueueStep \/ PollBothLost
SpecBothLost == SensorsInit /\ [][BothLostNext]_vars

----------------------------------------------------------------------------
(* An extension and the two buttons on their own.  Here env is the buttons: *)
(* per button its event count and whether its read succeeds; clk holds the  *)
(* counts stored by the program (_last_button_1_value,                      *)
(* _last_button_2_value); hw holds the fan and what the last call of        *)
(* run_extension could see.                                                 *)

Buttons == {"BUTTON_1", "BUTTON_2"}

\* The value read_button returns for an unreachable button.
None == 0 - 1

\* read_button
ReadButton(b) == IF env.reachable[b] THEN env.count[b] ELSE None

\* The test of run_extension for one button (lines 1254-1258, 1261-1265).
CompareButton(last, current) ==
    IF current # None /\ last # None
    THEN [pressed |-> current > last, last |-> current]
    ELSE [pressed |-> FALSE, last |-> last]

ButtonsInit ==
    /\ game = NewGame
    /\ clk = [last |-> [b \in Buttons |-> 0]]
    /\ main = [SensorsMain EXCEPT !.pc = "extension"]
    /\ mon = MonDead
    /\ ges = [pc |-> "none", wake |-> 0]
    /\ env = [count |-> [b \in Buttons |-> 0],
              reachable |-> [b \in Buttons |-> TRUE]]
    /\ hw = [fan |-> "off", fan_due |-> FALSE,
             count_at_start |-> [b \in Buttons |-> 0], seen_press |-> FALSE]

\* start_extension: the flags are set and both buttons are read.
ButtonsStartExtension ==
    /\ main.pc = "extension"
    /\ ~game.extension_active
    /\ game' = StartExtension(game)
    /\ clk' = [last |-> [b \in Buttons |-> ReadButton(b)]]
    /\ hw' = [hw EXCEPT !.fan_due = FALSE, !.count_at_start = env.count,
                        !.seen_press = FALSE]
    /\ UNCHANGED <<main, mon, ges, env>>

\* The subject presses a button: its event count goes up.
ButtonPressed ==
    /\ main.pc = "extension"
    /\ \E b \in Buttons :
          /\ env.count[b] < MaxPresses
          /\ env' = [env EXCEPT !.count[b] = @ + 1]
    /\ UNCHANGED <<game, clk, main, mon, ges, hw>>

\* A button becomes unreachable over the network, or reachable again.
ButtonReachability ==
    /\ main.pc = "extension"
    /\ \E b \in Buttons : env' = [env EXCEPT !.reachable[b] = ~@]
    /\ UNCHANGED <<game, clk, main, mon, ges, hw>>

\* The fan trigger time of the extension is reached.
FanTimeReached ==
    /\ main.pc = "extension"
    /\ game.extension_active
    /\ ~hw.fan_due
    /\ hw' = [hw EXCEPT !.fan_due = TRUE]
    /\ UNCHANGED <<game, clk, main, mon, ges, env>>

\* One call of run_extension.  seen_press: a button that this call has read
\* counts a press made since the extension started.
PollExtension ==
    /\ main.pc = "extension"
    /\ game.extension_active
    /\ LET fan == ~game.extension_fan_triggered /\ hw.fan_due
           r == [b \in Buttons |-> CompareButton(clk.last[b], ReadButton(b))]
           button_pressed == \E b \in Buttons : r[b].pressed
           g == [game EXCEPT !.extension_fan_triggered = @ \/ fan]
       IN  /\ game' = IF button_pressed THEN EndExtension(g, 0) ELSE g
           /\ clk' = [last |-> [b \in Buttons |-> r[b].last]]
           /\ hw' = [hw EXCEPT
                        !.fan = IF button_pressed /\ g.extension_fan_triggered
                                THEN "off" ELSE IF fan THEN "on" ELSE @,
                        !.seen_press =
                            \E b \in Buttons :
                                /\ env.reachable[b]
                                /\ env.count[b] > hw.count_at_start[b]]
    /\ main' = [main EXCEPT !.pc = "polled_buttons"]
    /\ UNCHANGED <<mon, ges, env>>

\* run_extension has returned to the loop of run_break.
ButtonsResume ==
    /\ main.pc = "polled_buttons"
    /\ main' = [main EXCEPT !.pc = "extension"]
    /\ hw' = [hw EXCEPT !.seen_press = FALSE]
    /\ UNCHANGED <<game, clk, mon, ges, env>>

ButtonsNext ==
    \/ ButtonsStartExtension \/ ButtonPressed \/ ButtonReachability
    \/ FanTimeReached \/ PollExtension \/ ButtonsResume
SpecButtons == ButtonsInit /\ [][ButtonsNext]_vars

\* The loop of run_break keeps calling run_extension; nothing makes the
\* subject press or the network answer.
SpecButtonsFair ==
    SpecButtons /\ WF_vars(PollExtension) /\ WF_vars(ButtonsResume)

----------------------------------------------------------------------------
(* The relays and the tasks that command them, on their own.  Here env is   *)
(* the network (whether a relay answers), hw holds per relay its state, the *)
(* last command sent to it and its online flag of hardware_state, and       *)
(* whether the done signal has been commanded.                              *)

Relays == {"FAN", "PLUG"}

\* shelly_control: the relay takes the command if it answers; the result is
\* whether it answered.
ShellyControl(h, d, command) ==
    IF env.reachable[d]
    THEN [h EXCEPT !.relay[d] = command, !.commanded[d] = command]
    ELSE [h EXCEPT !.commanded[d] = command]

\* fan_control and plug_control: the online flag takes the result.
RelayControl(h, d, command) ==
    [ShellyControl(h, d, command) EXCEPT !.online[d] = env.reachable[d]]

\* One retry of monitor_hardware_connections for a relay that is marked
\* offline: the command sent is "off".
RetryOffline(h, d) ==
    [ShellyControl(h, d, "off") EXCEPT !.online[d] = env.reachable[d]]

RelaysInit ==
    /\ game = NewGame
    /\ clk = NoClock
    /\ main = [SensorsMain EXCEPT !.pc = "session"]
    /\ mon = [MonDead EXCEPT !.pc = "hardware_monitor"]
    /\ ges = [pc |-> "none", wake |-> 0]
    /\ env = [reachable |-> [d \in Relays |-> TRUE]]
    /\ hw = [relay |-> [d \in Relays |-> "off"],
             commanded |-> [d \in Relays |-> "off"],
             online |-> [d \in Relays |-> TRUE],
             done_signal |-> FALSE]

\* A relay stops answering over the network, or answers again.
RelayReachability ==
    /\ \E d \in Relays : env' = [env EXCEPT !.reachable[d] = ~@]
    /\ UNCHANGED <<game, clk, main, mon, ges, hw>>

\* The session commands the fan (run_extension, end_extension).
SessionFan ==
    /\ main.pc = "session"
    /\ \E command \in {"on", "off"} : hw' = RelayControl(hw, "FAN", command)
    /\ UNCHANGED <<game, clk, main, mon, ges, env>>

\* end_game: the session is over and game_end_sequence is created.
SessionEnds ==
    /\ main.pc = "session"
    /\ game' = EndGame(game)
    /\ main' = [main EXCEPT !.pc = "finished"]
    /\ ges' = [pc |-> "hold", wake |-> 0]
    /\ UNCHANGED <<clk, mon, env, hw>>

\* game_end_sequence, steps 3 and 4: the plug is commanded on, again and
\* again.
EndSequencePlugOn ==
    /\ ges.pc = "hold"
    /\ hw' = [RelayControl(hw, "PLUG", "on") EXCEPT !.done_signal = TRUE]
    /\ UNCHANGED <<game, clk, main, mon, ges, env>>

\* One pass of monitor_hardware_connections over a relay marked offline.
MonitorRetry ==
    /\ mon.pc = "hardware_monitor"
    /\ \E d \in Relays :
          /\ ~hw.online[d]
          /\ hw' = RetryOffline(hw, d)
    /\ UNCHANGED <<game, clk, main, mon, ges, env>>

RelaysNext ==
    \/ RelayReachability \/ SessionFan \/ SessionEnds
    \/ EndSequencePlugOn \/ MonitorRetry
SpecRelays == RelaysInit /\ [][RelaysNext]_vars

----------------------------------------------------------------------------

\* The steps of the program and of time.
Step ==
    \/ StartGame \/ EnterPreparation \/ PrepPoll \/ PrepDone \/ Return
    \/ WaitDownPoll \/ WaitDownExit
    \/ HandleSensorLoss \/ SensorWaitPoll \/ SensorWaitEndGame \/ SensorRecovered
    \/ RoundSensorLoss \/ RoundExpired \/ RoundDeadline
    \/ RoundHolding \/ RoundPositionLost \/ RoundHoldComplete \/ TransWait
    \/ GracePoll \/ HoldViolation \/ ViolPoll \/ ViolCorrected \/ RoundNotAchieved
    \/ EndRound \/ VoidRound \/ VoidBreakPoll \/ VoidBreakDone
    \/ MonStart \/ MonPoll \/ MonConfirm \/ GesStart \/ GesHold
    \/ GameLoop \/ MainFinally \/ AtExit
    \/ Tick

Next == Step \/ Signal

Spec == Init /\ [][Next]_vars

\* The event loop runs every task that is ready and time passes when all
\* of them sleep; only the arrival of a signal is left to the outside.
SpecFair == Spec /\ WF_vars(Step)

\* A session under a configuration that supplies the violation limits, with
\* or without the approval probability.
ConfiguredNext ==
    \/ StartGame \/ EnterPreparation \/ PrepPoll \/ PrepDone \/ Return
    \/ WaitDownPoll \/ WaitDownExit
    \/ RoundExpired \/ RoundDeadline
    \/ RoundHolding \/ RoundPositionLost \/ RoundHoldComplete \/ TransWait
    \/ GracePoll \/ HoldViolation \/ ViolPoll \/ ViolCorrected \/ RoundNotAchieved
    \/ EndRound \/ VoidRound \/ VoidBreakPoll \/ VoidBreakDone
    \/ StartBreak \/ BreakExpired \/ BreakDeadline \/ BreakPoll \/ RunExtension
    \/ MonStart \/ MonPoll \/ MonConfirm \/ GesStart \/ GesHold
    \/ GameLoop \/ MainFinally \/ AtExit
    \/ ConfiguredTick

SpecConfigured == Start({"limits", "complete"}) /\ [][ConfiguredNext]_vars

\* The same session with a subject who leaves the buttons alone.
LadderNext ==
    \/ StartGame \/ EnterPreparation \/ PrepPoll \/ PrepDone \/ Return
    \/ WaitDownPoll \/ WaitDownExit
    \/ RoundExpired \/ RoundDeadline
    \/ RoundHolding \/ RoundPositionLost \/ RoundHoldComplete \/ TransWait
    \/ GracePoll \/ HoldViolation \/ ViolPoll \/ ViolCorrected \/ RoundNotAchieved
    \/ EndRound \/ VoidRound \/ VoidBreakPoll \/ VoidBreakDone
    \/ StartBreak \/ BreakExpired \/ BreakDeadline \/ BreakPoll
    \/ MonStart \/ MonPoll \/ MonConfirm \/ GesStart \/ GesHold
    \/ GameLoop \/ MainFinally \/ AtExit
    \/ LadderTick

SpecLadder == Start({"limits"}) /\ [][LadderNext]_vars

----------------------------------------------------------------------------
(* Properties                                                               *)

\* C1: consecutive_violations never exceeds MAX_PISHOCK_CYCLES, no more than
\* MAX_PISHOCK_CYCLES stimulations are dispatched in one continuous failure
\* episode, and the step that dispatches the stimulation that brings the
\* episode to MAX_PISHOCK_CYCLES enters void_round.
C1_CeilingThenVoid ==
    /\ [](game.consecutive_violations <= MAX_PISHOCK_CYCLES
          /\ hw.episode_shocks <= MAX_PISHOCK_CYCLES)
    /\ [][(hw.episode_shocks < MAX_PISHOCK_CYCLES
            /\ hw'.episode_shocks >= MAX_PISHOCK_CYCLES)
           => (main'.pc = "void_round" \/ mon'.pc = "void_round")]_vars

\* A hold-loss episode has reached the ceiling and void_round is entered.
C1_Witness ==
    /\ main.pc = "void_round"
    /\ hw.episode_shocks = MAX_PISHOCK_CYCLES
    /\ game.consecutive_violations = MAX_PISHOCK_CYCLES
    /\ ~game.void_occurred

\* C2: once the deadline has passed in a session that has not ended yet,
\* the session reaches Finished (end_game runs), whatever the subject does
\* or does not do, unless the process is stopped first.
C2_DeadlineEndsSession ==
    (env.deadline_reached /\ ProcessRunning /\ ges.pc = "none")
        ~> (game.state = "finished" \/ ~ProcessRunning)

\* C3: an exception raised by the session state machine sets critical_error.
C3_ExceptionSetsCriticalError ==
    hw.exc = "KeyError" => game.critical_error

\* C4: whichever way the session stops, all bulbs and the plug have been
\* commanded on when the cleanup of main() is done and the process exits.
C4_SafetyBeforeExit ==
    main.pc \in {"atexit", "exited"}
        => (hw.bulb_1 = "on" /\ hw.bulb_2 = "on" /\ hw.plug = "on")

\* The process was stopped by a signal during a round and the cleanup of
\* main() has run.
C4_Witness ==
    /\ main.pc = "atexit"
    /\ hw.exc = "SystemExit"
    /\ game.state = "round"
    /\ hw.bulb_1 = "on" /\ hw.bulb_2 = "on" /\ hw.plug = "on"

\* The round that ended by expiry has been handled by end_round.
RoundEndHandled == hw.round_expired /\ main.pc # "end_round"

\* C5: once a round that ended by expiry (and was not voided) has been handled,
\* exactly its drawn duration has been credited.
C5_ExpiredRoundCredited ==
    RoundEndHandled
        => game.completed_training_time = game.current_round_duration

\* C6: the Preparation phase that follows a round void is entered with the
\* three violation counters at 0, the ledger and the level as before.
C6_VoidThenCleanPreparation ==
    (hw.void_pending /\ game.state = "preparation")
        => /\ game.consecutive_violations = 0
           /\ game.current_pose_violations = 0
           /\ game.round_violations = 0
           /\ game.completed_training_time = 0
           /\ game.current_level = "easy"

C8_LevelLadder ==
    RoundEndHandled
        => \/ game.last_round_passed = "True" /\ game.current_level = "medium"
           \/ game.last_round_passed = "False" /\ game.current_level = "easy"

\* C9: a round that ended with fewer violations than the least limit the
\* configuration admits has passed.
C9_PassBelowLimit ==
    (RoundEndHandled /\ hw.violations_at_expiry < VIOLATION_LIMIT_MIN)
        => game.last_round_passed = "True"

\* Every task has polled and sleeps.
AllAsleep ==
    /\ ProcessRunning /\ ~main.busy /\ main.wake > 0
    /\ mon.pc = "dead" \/ mon.wake > 0

\* C10: at the end of a polling tick of a round on which the commanded
\* position is correct, consecutive_violations is 0.
C10_ZeroWhenCorrect ==
    (game.state = "round" /\ AllAsleep
     /\ CheckPositionCorrect(game, game.current_position).ok)
        => game.consecutive_violations = 0

\* C11: during a round, no step taken while get_board_angle has no reading
\* to return counts a violation or dispatches a stimulation (such a poll is
\* one on which check_both_sensors_lost reports the loss).
C11_NoReadingNoViolation ==
    [][(game.state = "round" /\ ~GetBoardAngle(game).has)
           => /\ hw'.episode_shocks <= hw.episode_shocks
              /\ game'.consecutive_violations <= game.consecutive_violations
      ]_vars

\* Control is in handle_sensor_loss_during_round.
InSensorLoss ==
    main.pc \in {"handle_sensor_loss", "sensor_wait", "sensor_recovered",
                 "sensor_timeout", "sensor_deadline"}

\* C12: once both sensors were detected lost during a round, the state is
\* Paused while the controller waits, no round result is applied (ledger and
\* level unchanged), control leaves the handler only into enter_preparation
\* or, after end_game, back to the callers (never back into the round loop)
\* unless the process is stopped, and the wait is bounded: the patience
\* clock advances with every time unit of the wait, and a poll goes back to
\* sleep only with the sensors still lost, before the deadline and with
\* patience left.
C12_SensorLossCancelsRound ==
    /\ [](main.pc \in {"sensor_wait", "sensor_recovered"}
              => game.state = "paused")
    /\ [][InSensorLoss
              => /\ game'.completed_training_time = game.completed_training_time
                 /\ game'.current_level = game.current_level
                 /\ game'.last_round_passed = game.last_round_passed
                 /\ main'.pc \in {"handle_sensor_loss", "sensor_wait",
                                  "sensor_recovered", "sensor_timeout",
                                  "sensor_deadline", "enter_preparation",
                                  "return", "finally"}
                 /\ main'.pc = "return" => game'.state = "finished"
         ]_vars
    /\ [][(main.pc = "sensor_wait" /\ main'.pc = "sensor_wait" /\ main' # main)
              => IF main.wake = 0
                 THEN /\ clk.patience < SENSOR_PATIENCE_TIME
                      /\ ~env.deadline_reached
                      /\ game'.both_sensors_lost
                      /\ main'.wake > 0
                 ELSE /\ main'.wake < main.wake
                      /\ \/ clk'.patience > clk.patience
                         \/ PatienceExceeded(clk'.patience)
         ]_vars

\* The sensors came back during the wait of a round cancelled in its hold
\* phase: the handler is about to enter Preparation.
C12_Witness ==
    /\ main.pc = "sensor_recovered"
    /\ game.state = "paused"
    /\ game.position_achieved
    /\ ~game.both_sensors_lost

\* C13: a call of get_board_angle returns the primary's latest angle
\* whenever the primary is CONNECTED and updated within the staleness window,
\* whatever the backup's state; the backup's latest angle when the primary
\* is not available and the backup is; None when neither is.  The switch to
\* the backup is recorded on the first such call only, until the primary's
\* angle has been returned again.
C13_PrimaryPreferred ==
    main.pc = "polled_angle"
        => /\ Available("w_back.txt")
                  => /\ hw.ret_has
                     /\ hw.ret_angle = env.angle["w_back.txt"]
                     /\ game.active_board_sensor = "w_back.txt"
           /\ (~Available("w_back.txt") /\ Available("Orientation.txt"))
                  => /\ hw.ret_has
                     /\ hw.ret_angle = env.angle["Orientation.txt"]
                     /\ game.active_board_sensor = "Orientation.txt"
           /\ (~Available("w_back.txt") /\ ~Available("Orientation.txt"))
                  => ~hw.ret_has
           /\ hw.switched <=> /\ ~Available("w_back.txt")
                              /\ Available("Orientation.txt")
                              /\ hw.armed

\* A repeated poll returns the backup's angle, which differs from the angle
\* of the primary's latest frame, without recording the switch again.
C13_Witness ==
    /\ main.pc = "polled_angle"
    /\ ~Available("w_back.txt") /\ Available("Orientation.txt")
    /\ env.state["w_back.txt"] = "CONNECTED"
    /\ hw.ret_angle = 90 /\ env.angle["w_back.txt"] = 10
    /\ ~hw.armed /\ ~hw.switched

\* The calls of check_both_sensors_lost that saw both sensors lost after a
\* call that did not (or as the first call), and the other way round.
LostEdges(inputs) ==
    Cardinality({i \in 1..Len(inputs) : inputs[i] /\ (i = 1 \/ ~inputs[i - 1])})
RecoveredEdges(inputs) ==
    Cardinality({i \in 2..Len(inputs) : ~inputs[i] /\ inputs[i - 1]})

\* C14: over any sequence of calls of check_both_sensors_lost, the "lost"
\* side effect has fired once per change from available to unavailable, the
\* "recovered" side effect once per change back, and both_sensors_lost is
\* what the last call saw (calls that see no change change nothing).
C14_EdgeTriggered ==
    /\ hw.lost_signals = LostEdges(hw.inputs)
    /\ hw.recovered_signals = RecoveredEdges(hw.inputs)
    /\ game.both_sensors_lost
           = (hw.inputs # <<>> /\ hw.inputs[Len(hw.inputs)])

\* available, available, unavailable, unavailable, available: one "lost"
\* and one "recovered" signal.
C14_Witness ==
    /\ hw.inputs = <<FALSE, FALSE, TRUE, TRUE, FALSE>>
    /\ hw.lost_signals = 1
    /\ hw.recovered_signals = 1

\* C15: once total_extension_time_used >= TOTAL_EXTENSION_TIME_ALLOWED no
\* extension is started any more: no step, in a break or in a preparation
\* window, takes extension_active from false to true.
C15_ExhaustedPoolStartsNothing ==
    [][game.total_extension_time_used >= TOTAL_EXTENSION_TIME_ALLOWED
          => ~(~game.extension_active /\ game'.extension_active)]_vars

\* C16: total_extension_time_used never exceeds
\* TOTAL_EXTENSION_TIME_ALLOWED.
C16_PoolNeverExceeded ==
    game.total_extension_time_used <= TOTAL_EXTENSION_TIME_ALLOWED

\* C17: total_extension_time_used never decreases; a step changes it only
\* by ending the active extension on a button press in run_extension, and
\* every step that ends an extension adds exactly the time elapsed since
\* that extension was started.
C17_UsedTimeFrame ==
    /\ [][game'.total_extension_time_used >= game.total_extension_time_used]_vars
    /\ [][game'.total_extension_time_used # game.total_extension_time_used
            => /\ MainAt("break")
               /\ game.extension_active /\ ~game'.extension_active
               /\ clk.break_last_button_1_value = "behind"]_vars
    /\ [][(game.extension_active /\ ~game'.extension_active)
            => game'.total_extension_time_used
                   = game.total_extension_time_used + clk.extension_elapsed]_vars

\* Two extensions have been ended: the counter holds more than one
\* extension can contribute.
C17_Witness ==
    /\ game.total_extension_time_used > MaxExtensionTime
    /\ ~game.extension_active
    /\ game.state = "break"

\* C18: a break extension request that arrives with a small positive
\* remainder of the pool (the 10 seconds of the scenario are one time unit
\* here) is denied with the "limit" cue whatever the draw, and
\* total_extension_requests is incremented.
C18_LowPoolDenied ==
    [][(/\ game.total_extension_time_used = TOTAL_EXTENSION_TIME_ALLOWED - 1
        /\ game'.total_extension_requests # game.total_extension_requests)
          => /\ hw'.cue = "limit"
             /\ ~game'.extension_active
             /\ game'.total_extension_requests
                    = game.total_extension_requests + 1]_vars

\* C18, as the code has it: every evaluated request increments
\* total_extension_requests by one; it is denied with the "limit" cue
\* exactly when no pool time remains, and then no extension starts and the
\* break goes on; with time remaining, however little, it goes to the
\* approval draw.
C18_LimitOnlyWhenExhausted ==
    [][game'.total_extension_requests # game.total_extension_requests
          => /\ game'.total_extension_requests = game.total_extension_requests + 1
             /\ (hw'.cue = "limit")
                    <=> (game.total_extension_time_used >= TOTAL_EXTENSION_TIME_ALLOWED)
             /\ (hw'.cue = "limit")
                    => (~game'.extension_active /\ main'.pc = "break")
             /\ (hw'.cue # "limit" /\ env.config = "complete")
                    => (hw'.cue \in {"granted", "denied"}
                        /\ (game'.extension_active <=> hw'.cue = "granted"))]_vars

\* A request made with one time unit left in the pool has been granted.
C18_Witness ==
    /\ hw.cue = "granted"
    /\ game.extension_active
    /\ game.total_extension_time_used = TOTAL_EXTENSION_TIME_ALLOWED - 1

\* C19: at entry to the preparation that follows a round,
\* extension_qualified is false after a voided round, true after a failed
\* round that was not voided, false after a passed Easy or Medium round and
\* true after a passed Hard round (the level is then Easy again).
C19_EligibilityAtPreparation ==
    MainAt("enter_preparation")
        => IF hw.void_pending THEN ~game.extension_qualified
           ELSE IF game.last_round_passed = "False" THEN game.extension_qualified
           ELSE IF game.last_round_passed = "True"
           THEN game.extension_qualified <=> game.current_level = "easy"
           ELSE TRUE

\* C20: once the session state is Finished the masking white noise is not
\* playing, whichever path led into the session end.
C20_SilentWhenFinished == game.state = "finished" => ~hw.white_noise

\* C21: after a session end that no exception and no signal has disturbed,
\* the plug is commanded on for the first time only by game_end_sequence,
\* when its randomized delay has elapsed.
C21_PlugAfterDelay ==
    [][(/\ ges.pc # "none"
        /\ hw.exc = "None"
        /\ hw.plug = "off" /\ hw'.plug = "on")
          => (ges.pc = "delay" /\ ges.wake = 0)]_vars

\* The violation cue is among the recorded side effects only after the
\* dispatch of the stimulation.
ShockBeforeCue(effects) ==
    \A i \in 1..Len(effects) :
        effects[i] = "play_violation"
            => \E j \in 1..(i - 1) : effects[j] = "send_pishock"

\* C22: every step that counts a violation, in the monitoring task or in
\* the hold-lost path of run_round, dispatches the stimulation first and
\* triggers the violation cue, if at all, after that.
C22_ShockBeforeCue ==
    /\ [](ShockBeforeCue(hw.effects))
    /\ [][game'.round_violations = game.round_violations + 1
            => /\ hw'.effects # <<>>
               /\ hw'.effects[1] = "send_pishock"
               /\ hw'.episode_shocks = hw.episode_shocks + 1]_vars

\* The monitoring task has counted its violation of the pose: stimulation,
\* then cue.
C22_Witness ==
    /\ mon.violation_triggered
    /\ game.violation_announced_this_pose
    /\ hw.effects = <<"send_pishock", "play_violation">>
    /\ hw.pose_cues = 1

\* C23: within one commanded pose (UP is always one: a round starts in
\* DOWN and the pose changes by command_position only) the violation cue is
\* played at most once, however many violations occur in the pose.
C23_OneCuePerPose == game.current_position = "up" => hw.pose_cues <= 1

\* C24: a pass of the round loop decides the round end or the deadline
\* only after its position check and violation logic: a pass that finds
\* the held position lost after the grace period has counted the violation
\* when it ends the round or the session.
C24_PositionBeforeExpiry ==
    [][(/\ MainAt("round") /\ game.state = "round"
        /\ main'.pc \in {"end_round", "return"}
        /\ game.position_achieved
        /\ ~CheckPositionCorrect(RoundHead.g, game.current_position).ok
        /\ clk.trans >= 0)
          => game'.round_violations > game.round_violations]_vars

\* C25: once the session state is Finished it stays Finished, and no
\* stimulation is dispatched any more.
C25_FinishedIsFinal ==
    [][game.state = "finished"
          => /\ game'.state = "finished"
             /\ hw'.episode_shocks <= hw.episode_shocks]_vars

\* C26: a stimulation is dispatched, and a violation counted, only by a
\* step taken while the session state is Round.
C26_ShockOnlyInRound ==
    [][(\/ hw'.episode_shocks > hw.episode_shocks
        \/ game'.consecutive_violations > game.consecutive_violations)
          => game.state = "round"]_vars

\* C27: every level record of the configuration defines a violation limit,
\* and no round end fails for a missing limit.
C27_EveryLevelHasLimit ==
    /\ \A l \in Levels : "violation_limit" \in DOMAIN LevelConfig(env.config)[l]
    /\ hw.exc # "KeyError"

\* C28: a break extension request evaluated while pool time remains
\* increments total_extension_requests by one and ends either granted
\* (granted cue, extension_active true) or denied (denied cue,
\* extension_active false), and the break loop goes on.
C28_GrantedOrDenied ==
    [][(/\ game'.total_extension_requests # game.total_extension_requests
        /\ game.total_extension_time_used < TOTAL_EXTENSION_TIME_ALLOWED)
          => /\ game'.total_extension_requests = game.total_extension_requests + 1
             /\ hw'.cue \in {"granted", "denied"}
             /\ game'.extension_active <=> hw'.cue = "granted"
             /\ main'.pc = "break"
             /\ game'.state = "break"]_vars

\* C29: an extension granted in the preparation window has ended when the
\* round starts: extension_active is false whenever the state is Round.
C29_NoExtensionInRound == game.state = "round" => ~game.extension_active

\* C30: when a pass of the round loop finds the commanded position reached
\* after the transition wait has timed out and the monitoring task has
\* ended, position_achieved becomes true (and the hold starts).
C30_LateAchievementCounts ==
    [][(/\ RoundBody
        /\ ~game.position_achieved
        /\ mon.pc = "dead"
        /\ CheckPositionCorrect(RoundHead.g, game.current_position).ok
        /\ main' # main /\ main'.pc # "finally")
          => game'.position_achieved]_vars

\* The round is in a violation episode: a violation has been counted and
\* the commanded position is not correct.
InViolationEpisode ==
    /\ game.state = "round"
    /\ game.consecutive_violations > 0
    /\ ~CheckPositionCorrect(game, game.current_position).ok

\* C31: the time of a violation episode, in the not-yet-achieved path as in
\* the hold-lost path, does not count towards the elapsed time of the round.
C31_ViolationTimeExcluded ==
    [][InViolationEpisode => clk'.round_elapsed <= clk.round_elapsed]_vars

\* C32: every loss of an achieved position, the initial DOWN of a round
\* included, opens a grace period: the pass of the round loop that finds
\* the position lost records no violation and waits for the correction.
C32_GraceForEveryPosition ==
    [][(/\ RoundBody
        /\ game.position_achieved
        /\ ~CheckPositionCorrect(RoundHead.g, game.current_position).ok
        /\ main' # main /\ main'.pc # "finally")
          => main'.pc = "grace"]_vars

\* C33: round_violations goes up by exactly 1, and only in the step that
\* fires a violation (the monitoring task at the transition time, run_round
\* when a lost hold is not corrected); void_round alone overwrites it with
\* its marker.  The periodic shocks of the violation loop and of STATE 2
\* leave it unchanged, and end_round decides pass or fail by comparing it
\* with the limit of the level.
C33_CountedPerViolation ==
    [][/\ game'.round_violations > game.round_violations
          => \/ /\ game'.round_violations = game.round_violations + 1
                /\ \/ main.pc = "violation" /\ main'.pc = "viol"
                   \/ /\ mon.pc = "poll"
                      /\ mon.elapsed >= mon.transition_time
                      /\ ~mon.violation_triggered
                      /\ main' = main
             \/ /\ main.pc = "void_round"
                /\ game'.round_violations = VoidedRoundViolations
       /\ (/\ hw'.episode_shocks > hw.episode_shocks
           /\ main' # main
           /\ main.pc \in {"viol", "round"})
          => game'.round_violations = game.round_violations
       /\ (main.pc = "end_round" /\ main'.pc \in {"return", "start_break"})
          => game'.last_round_passed =
                 IF game.round_violations <
                        LevelConfig(env.config)[game.current_level].violation_limit
                 THEN "True" ELSE "False"]_vars
C33_Witness ==
    /\ game.state = "round"
    /\ game.round_violations = 1
    /\ game.consecutive_violations >= 2
    /\ hw.episode_shocks >= 2
    /\ hw.since_stim = 0

\* C34: within one failure episode a stimulation that follows another one
\* is dispatched no sooner than 5 seconds after it, and never on a tick on
\* which the commanded position is correct.
C34_FiveSecondCadence ==
    [][(hw.episode_shocks > 0 /\ hw'.episode_shocks > hw.episode_shocks)
          => /\ hw.since_stim >= ShockInterval
             /\ ~CheckPositionCorrect(game, game.current_position).ok]_vars

C34_Witness ==
    /\ game.state = "round"
    /\ game.continuous_shock_count = 2
    /\ hw.episode_shocks = 2
    /\ hw.since_stim = 0

\* C35: the wait of an active extension terminates: an extension that is
\* active is over after finitely many passes of the loop, whether or not the
\* subject presses a button.
C35_ExtensionWaitEnds == game.extension_active ~> ~game.extension_active

\* C36: a call of get_board_angle that returns a reading leaves the
\* both-lost flag cleared: the first call that finds a source available
\* after a total loss has cleared it.
C36_FlagClearedOnRecovery ==
    (main.pc = "polled_angle" /\ hw.ret_has) => ~game.both_sensors_were_lost

\* C37: a call of run_extension that reads a button on which a press has
\* been made since the extension started ends the extension, whether or not
\* that button could be read when the extension started, and the fan is
\* off afterwards.
C37_AnyPressEndsExtension ==
    (main.pc = "polled_buttons" /\ hw.seen_press)
        => (~game.extension_active /\ hw.fan = "off")

\* C38: once game_end_sequence has commanded the plug on, the last command
\* sent to the plug by any task is "on".
C38_DoneSignalStaysCommanded ==
    hw.done_signal => hw.commanded["PLUG"] = "on"

\* C39: a request is evaluated (total_extension_requests and
\* last_extension_request_time change) only by a pass of the break loop
\* outside an extension that finds a rising edge of Button 1 with the
\* cooldown over; a press found inside the cooldown changes neither of them
\* nor starts an extension, and the step that ends an extension leaves both
\* unchanged.
C39_RequestFrame ==
    [][/\ (\/ game'.total_extension_requests # game.total_extension_requests
           \/ clk'.since_request < clk.since_request)
          => /\ BreakBody
             /\ clk.break_last_button_1_value = "behind"
             /\ clk.since_request >= EXTENSION_REQUEST_COOLDOWN
             /\ game'.total_extension_requests = game.total_extension_requests + 1
             /\ clk'.since_request = 0
       /\ (/\ BreakBody
           /\ main' # main
           /\ clk.break_last_button_1_value = "behind"
           /\ clk.since_request < EXTENSION_REQUEST_COOLDOWN)
          => /\ game'.total_extension_requests = game.total_extension_requests
             /\ clk'.since_request = clk.since_request
             /\ ~game'.extension_active
       /\ (game.extension_active /\ ~game'.extension_active)
          => /\ game'.total_extension_requests = game.total_extension_requests
             /\ clk'.since_request = clk.since_request]_vars
C39_Witness ==
    /\ BreakBody
    /\ clk.break_last_button_1_value = "behind"
    /\ clk.since_request < EXTENSION_REQUEST_COOLDOWN
    /\ game.total_extension_requests = 1

----------------------------------------------------------------------------
(* Sanity of the model                                                      *)

\* The monitoring task never reaches its own void branch (lines 508-512).
MonNeverVoids == mon.pc # "void_round"

\* Under fair scheduling control always leaves the sensor-loss handler.
SensorLossWaitEnds == []<>(~InSensorLoss)

\* command_position never runs while an earlier monitoring task is alive.
MonitorSlotFree ==
    [][(main.pc = "round" /\ main'.pc = "trans_wait") => mon.pc = "dead"]_vars

====
